---- MODULE Spec2Model ----
(***************************************************************************)
(* EDM-Limits: conversion of measured electric-dipole-moment limits into   *)
(* theta_QCD, chromo-EDM and new-particle mass-scale bounds (hadronic.py,  *)
(* electron.py), and the forward sensitivity pipeline (schiff.py).         *)
(*                                                                         *)
(* Python floats are modelled as exact real numbers of the form            *)
(*        s * ((n/d) * 2^t * 5^f * pi^p) ^ (1/(1+h))                       *)
(* that is, a signed rational with its powers of 2, of 5 and of pi apart,  *)
(* possibly under one square root.  Every arithmetic operation of the      *)
(* program (product, quotient, sum, sqrt, abs) is computed exactly on this *)
(* form, so an equality of the model is an equality of real numbers;       *)
(* floating-point rounding is not modelled.                                *)
(***************************************************************************)
EXTENDS Integers, Sequences, FiniteSets, TLC

----------------------------------------------------------------------------
(* Exact arithmetic standing for Python's float operators.  Python         *)
(* evaluates the operands of an expression once, before the operator is    *)
(* applied; the operators below do the same by binding each operand to its *)
(* value first, {e : x \in {a}} being e with the value of a for x.         *)

RECURSIVE GCD(_, _)
GCD(a, b) ==
    CHOOSE r \in {IF y = 0 THEN x ELSE GCD(y, x % y) : x \in {a}, y \in {b}} : TRUE

RECURSIVE Pow(_, _)
Pow(b, k) ==
    CHOOSE r \in {IF j = 0 THEN 1 ELSE x * Pow(x, j - 1) : x \in {b}, j \in {k}} : TRUE

Zero == [s |-> 0, n |-> 0, d |-> 1, t |-> 0, f |-> 0, p |-> 0, h |-> 0]

\* Integer square root (largest r with r*r <= x), by bisection.
RECURSIVE ISqrtIn(_, _, _)
ISqrtIn(x, lo, hi) ==
    CHOOSE r \in
        {IF l >= u THEN l
         ELSE IF (l + u + 1) \div 2 <= v \div ((l + u + 1) \div 2)
              THEN ISqrtIn(v, (l + u + 1) \div 2, u)
              ELSE ISqrtIn(v, l, (l + u + 1) \div 2 - 1) :
            v \in {x}, l \in {lo}, u \in {hi}} : TRUE

ISqrt(x) == ISqrtIn(x, 0, IF x > 46340 THEN 46340 ELSE x)

IsSquare(x) == CHOOSE r \in {v * v = x : v \in {ISqrt(x)}} : TRUE

\* Move the factors 2 and 5 of numerator and denominator into the exponents
\* t and f: the result has n and d coprime to 10, which (with gcd(n, d) = 1)
\* makes the representation of a number unique.
RECURSIVE Canon(_)
Canon(q) ==
    CHOOSE r \in
        {IF c.n % 2 = 0 THEN Canon([c EXCEPT !.n = c.n \div 2, !.t = c.t + 1])
         ELSE IF c.n % 5 = 0 THEN Canon([c EXCEPT !.n = c.n \div 5, !.f = c.f + 1])
         ELSE IF c.d % 2 = 0 THEN Canon([c EXCEPT !.d = c.d \div 2, !.t = c.t - 1])
         ELSE IF c.d % 5 = 0 THEN Canon([c EXCEPT !.d = c.d \div 5, !.f = c.f - 1])
         ELSE c : c \in {q}} : TRUE

\* The rational root of a canonical radicand that is a perfect square, the
\* square root itself otherwise.
Root(c) ==
    IF c.t % 2 = 0 /\ c.f % 2 = 0 /\ c.p % 2 = 0 /\ IsSquare(c.n) /\ IsSquare(c.d)
    THEN [c EXCEPT !.n = ISqrt(c.n), !.d = ISqrt(c.d), !.t = c.t \div 2,
                   !.f = c.f \div 2, !.p = c.p \div 2, !.h = 0]
    ELSE c

\* The number s * ((n/d) * 2^t * 5^f * pi^p)^(1/(1+h)) in its unique form.
Norm(q) ==
    CHOOSE r \in
        {IF v.s = 0 \/ v.n = 0 THEN Zero
         ELSE CHOOSE w \in
                {IF c.h = 1 THEN Root(c) ELSE c :
                    c \in {Canon([v EXCEPT !.n = v.n \div g, !.d = v.d \div g]) :
                             g \in {GCD(v.n, v.d)}}} : TRUE :
            v \in {q}} : TRUE

\* Literals: the decimal literal m * 10^e (0.0039 is Dec(39, -4)), the
\* integer k, and the fraction a/b of two positive integers.
Dec(m, e) == Norm([s |-> IF m < 0 THEN -1 ELSE IF m = 0 THEN 0 ELSE 1,
                   n |-> IF m < 0 THEN -m ELSE m, d |-> 1, t |-> e, f |-> e,
                   p |-> 0, h |-> 0])

Num(k) == Dec(k, 0)

Frac(a, b) == Norm([s |-> 1, n |-> a, d |-> b, t |-> 0, f |-> 0, p |-> 0, h |-> 0])

\* Product of two rationals (h = 0), cancelling crosswise before multiplying.
MulQ(a, b) ==
    CHOOSE r \in
        {IF x.s = 0 \/ y.s = 0 THEN Zero
         ELSE CHOOSE w \in
                {Norm([s |-> x.s * y.s, n |-> (x.n \div g[1]) * (y.n \div g[2]),
                       d |-> (x.d \div g[2]) * (y.d \div g[1]), t |-> x.t + y.t,
                       f |-> x.f + y.f, p |-> x.p + y.p, h |-> 0]) :
                    g \in {<<GCD(x.n, y.d), GCD(y.n, x.d)>>}} : TRUE :
            x \in {a}, y \in {b}} : TRUE

\* x * x as a rational: the radicand of a square root, the square otherwise.
Square(a) ==
    CHOOSE r \in
        {IF x.h = 1 THEN [x EXCEPT !.s = 1, !.h = 0]
         ELSE MulQ([x EXCEPT !.s = 1], [x EXCEPT !.s = 1]) : x \in {a}} : TRUE

\* a * b
Mul(a, b) ==
    CHOOSE r \in
        {IF x.s = 0 \/ y.s = 0 THEN Zero
         ELSE IF x.h = 0 /\ y.h = 0 THEN MulQ(x, y)
         ELSE Norm([MulQ(Square(x), Square(y)) EXCEPT !.s = x.s * y.s, !.h = 1]) :
            x \in {a}, y \in {b}} : TRUE

\* 1 / a, for a # 0
Inv(a) ==
    CHOOSE r \in
        {[x EXCEPT !.n = x.d, !.d = x.n, !.t = -x.t, !.f = -x.f, !.p = -x.p] :
            x \in {a}} : TRUE

\* a / b, for b # 0
Div(a, b) == Mul(a, Inv(b))

\* The integer a * 2^(-t) * 5^(-f) of a rational a whose exponents are at least t and f.
Scaled(a, t, f) == a.s * a.n * Pow(2, a.t - t) * Pow(5, a.f - f)

\* a + b, for rationals free of pi
Add(a, b) ==
    CHOOSE r \in
        {IF x.s = 0 THEN y
         ELSE IF y.s = 0 THEN x
         ELSE CHOOSE w \in
                {Norm([s |-> IF m < 0 THEN -1 ELSE IF m = 0 THEN 0 ELSE 1,
                       n |-> IF m < 0 THEN -m ELSE m, d |-> x.d * y.d,
                       t |-> IF x.t < y.t THEN x.t ELSE y.t,
                       f |-> IF x.f < y.f THEN x.f ELSE y.f, p |-> 0, h |-> 0]) :
                    m \in {Scaled(x, IF x.t < y.t THEN x.t ELSE y.t,
                                     IF x.f < y.f THEN x.f ELSE y.f) * y.d
                           + Scaled(y, IF x.t < y.t THEN x.t ELSE y.t,
                                       IF x.f < y.f THEN x.f ELSE y.f) * x.d}} : TRUE :
            x \in {a}, y \in {b}} : TRUE

\* numpy.sqrt(a), for a >= 0 rational
Sqrt(a) == Norm([a EXCEPT !.h = 1])

\* abs(a)
Abs(a) == CHOOSE r \in {IF x.s = 0 THEN Zero ELSE [x EXCEPT !.s = 1] : x \in {a}} : TRUE

Neg(a) == CHOOSE r \in {[x EXCEPT !.s = -x.s] : x \in {a}} : TRUE

\* n * 10^e < d for positive integers n, d, decided without forming a
\* product beyond the integers' range.
BelowPow10(n, d, e) ==
    IF e >= 10 THEN FALSE
    ELSE IF e >= 0 THEN n <= (d - 1) \div Pow(10, e)
    ELSE IF e <= -10 THEN TRUE
    ELSE n \div Pow(10, -e) < d

\* (n/d) * 2^t * 5^f < 1 for a positive rational free of pi: 2^t * 5^f is
\* 10^f * 2^(t-f), and the power of 2 left goes to the side it multiplies.
BelowOne(q) ==
    IF q.t >= q.f THEN BelowPow10(q.n * Pow(2, q.t - q.f), q.d, q.f)
    ELSE BelowPow10(q.n, q.d * Pow(2, q.f - q.t), q.f)

\* Rational bounds of pi: 333/106 < pi < 355/113.
PiLow == Frac(333, 106)

PiHigh == Frac(355, 113)

\* An upper bound of q * pi^k, for a positive rational q free of pi.
RECURSIVE UpperBound(_, _)
UpperBound(q, k) ==
    CHOOSE r \in
        {IF j = 0 THEN x
         ELSE IF j > 0 THEN UpperBound(MulQ(x, PiHigh), j - 1)
         ELSE UpperBound(MulQ(x, Inv(PiLow)), j + 1) : x \in {q}, j \in {k}} : TRUE

\* 0 < a < b is certain: an upper bound of (a/b)^2 is below 1.
LtPos(a, b) ==
    CHOOSE r \in
        {BelowOne(u) : u \in {UpperBound([q EXCEPT !.p = 0], q.p) :
                                q \in {MulQ(Square(a), Inv(Square(b)))}}} : TRUE

\* a < b
Lt(a, b) ==
    CHOOSE r \in
        {IF x.s # y.s THEN x.s < y.s
         ELSE IF x.s = 0 THEN FALSE
         ELSE IF x.s = 1 THEN LtPos(x, y)
         ELSE LtPos(y, x) : x \in {a}, y \in {b}} : TRUE

\* a <= b
Le(a, b) == CHOOSE r \in {x = y \/ Lt(x, y) : x \in {a}, y \in {b}} : TRUE

----------------------------------------------------------------------------
(* Python values: a float, an int, a str, None, nan, or an exception in     *)
(* flight.                                                                 *)

Float(v) == [kind |-> "float", val |-> v, exc |-> "none"]

PyNone == [kind |-> "None", val |-> Zero, exc |-> "none"]

NaN == [kind |-> "nan", val |-> Zero, exc |-> "none"]

Raise(e) == [kind |-> "raise", val |-> Zero, exc |-> e]

\* A str value, and an int value.
PyStr(x) == [kind |-> "str", val |-> Zero, exc |-> "none", str |-> x]

PyInt(k) == [kind |-> "int", val |-> Num(k), exc |-> "none"]

\* A float literal m * 10^e of the source.
Lit(m, e) == Float(Dec(m, e))

\* The outcome of an arithmetic operator on a and b before their values
\* are used: an exception in flight propagates, None as an operand is a
\* TypeError, nan is absorbing.
Operands(a, b) ==
    IF a.kind = "raise" THEN a
    ELSE IF b.kind = "raise" THEN b
    ELSE IF a.kind = "None" \/ b.kind = "None" THEN Raise("TypeError")
    ELSE IF a.kind = "nan" \/ b.kind = "nan" THEN NaN
    ELSE Float(Zero)

\* a * b, a / b (b # 0) and a + b of Python.
PyMul(a, b) ==
    CHOOSE r \in
        {IF Operands(x, y) # Float(Zero) THEN Operands(x, y)
         ELSE Float(Mul(x.val, y.val)) : x \in {a}, y \in {b}} : TRUE

PyDiv(a, b) ==
    CHOOSE r \in
        {IF Operands(x, y) # Float(Zero) THEN Operands(x, y)
         ELSE Float(Div(x.val, y.val)) : x \in {a}, y \in {b}} : TRUE

PyAdd(a, b) ==
    CHOOSE r \in
        {IF Operands(x, y) # Float(Zero) THEN Operands(x, y)
         ELSE Float(Add(x.val, y.val)) : x \in {a}, y \in {b}} : TRUE

\* a - b of Python.
PySub(a, b) ==
    CHOOSE r \in
        {IF Operands(x, y) # Float(Zero) THEN Operands(x, y)
         ELSE Float(Add(x.val, Neg(y.val))) : x \in {a}, y \in {b}} : TRUE

\* a ** k of Python, for a float k with a whole value of at least 1.
RECURSIVE PyPow(_, _)
PyPow(a, k) ==
    CHOOSE r \in
        {IF j = 1 THEN x ELSE PyMul(x, PyPow(x, j - 1)) : x \in {a}, j \in {k}} : TRUE

\* numpy.abs
NpAbs(a) ==
    CHOOSE r \in
        {IF x.kind = "raise" \/ x.kind = "nan" THEN x
         ELSE IF x.kind = "None" THEN Raise("TypeError")
         ELSE Float(Abs(x.val)) : x \in {a}} : TRUE

\* numpy.sqrt: nan for a negative float, a TypeError for None.
NpSqrt(a) ==
    CHOOSE r \in
        {IF x.kind = "raise" \/ x.kind = "nan" THEN x
         ELSE IF x.kind = "None" THEN Raise("TypeError")
         ELSE IF x.val.s < 0 THEN NaN
         ELSE Float(Sqrt(x.val)) : x \in {a}} : TRUE

\* numpy.pi
NpPi == Float([s |-> 1, n |-> 1, d |-> 1, t |-> 0, f |-> 0, p |-> 1, h |-> 0])

----------------------------------------------------------------------------
(* hadronic.py, electron.py: the EDM limit hierarchy.                      *)

HadronicClasses == {"NeutronLimit", "HgLimit", "XeLimit", "TlFLimit", "RaLimit", "YbLimit"}

Classes == {"EDMLimit", "eEDMLimit"} \cup HadronicClasses

\* The attributes each class body defines (class attributes, properties and
\* methods).
ClassDict(cls) ==
    CASE cls = "EDMLimit"  -> {"system", "theta_QCD", "cEDM", "new_particle_mass_from_cEDM"}
      [] cls = "eEDMLimit" -> {"one_loop_mass_limit", "two_loop_mass_limit"}
      [] cls = "TlFLimit"  -> {"system", "_schiff_limit", "theta_QCD", "cEDM"}
      [] cls = "RaLimit"   -> {"system", "_schiff_limit", "theta_QCD", "_g1", "cEDM"}
      [] cls = "YbLimit"   -> {"system", "_schiff_limit", "theta_QCD", "cEDM"}
      [] OTHER             -> {"system", "theta_QCD", "cEDM"}

\* The attributes __init__ stores on the instance.
InstanceDict == {"year", "edm_e_cm", "ref"}

\* The class attribute `system` as the body of the class cls assigns it.
class_system(cls) ==
    CASE cls = "EDMLimit"     -> PyNone
      [] cls = "NeutronLimit" -> PyStr("neutron")
      [] cls = "HgLimit"      -> PyStr("Hg")
      [] cls = "XeLimit"      -> PyStr("Xe")
      [] cls = "TlFLimit"     -> PyStr("TlF")
      [] cls = "RaLimit"      -> PyStr("Ra")
      [] cls = "YbLimit"      -> PyStr("Yb")

\* Python's attribute lookup along the method resolution order: the class
\* itself, then its base EDMLimit.
Resolve(cls, name) ==
    IF name \in ClassDict(cls) THEN cls
    ELSE IF name \in ClassDict("EDMLimit") THEN "EDMLimit"
    ELSE "missing"

\* EDMLimit.__init__ (every subclass __init__ only calls it).
EDMLimit_init(cls, year, edm_e_cm, ref) ==
    [cls |-> cls, year |-> year, edm_e_cm |-> edm_e_cm, ref |-> ref]

\* EDMLimit.theta_QCD: the body is "pass".
EDMLimit_theta_QCD(self) == PyNone

\* EDMLimit.cEDM: the body is "pass".
EDMLimit_cEDM(self) == PyNone

\* A slip in the quotient: the operands of the division swapped.
NeutronLimit_theta_QCD_swapped(self) ==
    LET n_edm_theta_factor == Lit(39, -4)
        factor_in_cm == PyMul(n_edm_theta_factor, PyDiv(Lit(1, 2), Lit(1, 15)))
    IN PyDiv(factor_in_cm, Float(self.edm_e_cm))

NeutronLimit_theta_QCD(self) ==
    LET n_edm_theta_factor == Lit(39, -4)
        factor_in_cm == PyMul(n_edm_theta_factor, PyDiv(Lit(1, 2), Lit(1, 15)))
    IN PyDiv(Float(self.edm_e_cm), factor_in_cm)

NeutronLimit_cEDM(self) == PyDiv(Float(self.edm_e_cm), Lit(55, -2))

HgLimit_theta_QCD(self) ==
    LET graner_ratio == PyDiv(Lit(74, -31), Lit(15, -11))
    IN PyDiv(Float(self.edm_e_cm), graner_ratio)

cEDM_Hg(d_Hg) ==
    LET factor == PyDiv(Lit(57, -28), Lit(74, -31))
    IN PyMul(d_Hg, factor)

HgLimit_cEDM(self) == cEDM_Hg(Float(self.edm_e_cm))

\* The default of the parameter d_q of hadronic.chromo_EDM_limits_on_new_particle_mass.
hadronic_d_q_default == Lit(1, -27)

\* hadronic.chromo_EDM_limits_on_new_particle_mass
hadronic_MeV_to_TeV == PyMul(PyDiv(Lit(1, 0), Lit(1, -6)), PyDiv(Lit(1, -12), Lit(1, 0)))

hadronic_chromo_EDM_limits_on_new_particle_mass(d_q) ==
    LET alpha == PyDiv(Lit(1, 0), Lit(137, 0))
        m_q == Lit(5, 0)
        prefactor == PyDiv(PyMul(alpha, m_q), NpPi)
        cm_to_fm == PyDiv(Lit(1, 15), Lit(1, 2))
        d_q_fm == PyMul(d_q, cm_to_fm)
        fm_to_inv_MeV == PyDiv(Lit(1, 0), Lit(197, 0))
        d_q_inv_MeV == PyMul(d_q_fm, fm_to_inv_MeV)
    IN PyMul(hadronic_MeV_to_TeV,
             NpSqrt(PyDiv(PyMul(prefactor, Lit(1, 0)), d_q_inv_MeV)))

\* A slip in the direction of the Xe/Hg factor: divided by 10, not multiplied.
XeLimit_theta_QCD_divided(self) ==
    LET Hg_factor == PyDiv(Lit(74, -31), Lit(15, -11))
        Xe_Hg_factor == Lit(10, 0)
    IN PyDiv(PyDiv(Float(self.edm_e_cm), Xe_Hg_factor), Hg_factor)

XeLimit_theta_QCD(self) ==
    LET Hg_factor == PyDiv(Lit(74, -31), Lit(15, -11))
        Xe_Hg_factor == Lit(10, 0)
    IN PyDiv(PyMul(Float(self.edm_e_cm), Xe_Hg_factor), Hg_factor)

XeLimit_cEDM(self) ==
    LET eff_d_Hg == PyMul(Float(self.edm_e_cm), Lit(10, 0))
    IN cEDM_Hg(eff_d_Hg)

TlFLimit_schiff_limit(self) ==
    LET Cho1991_Schiff_limit == Lit(4, -10)
        Cho1991_TlF_EDM_limit == Lit(29, -24)
        EDM_to_schiff_for_TlF == PyDiv(Cho1991_Schiff_limit, Cho1991_TlF_EDM_limit)
    IN PyMul(EDM_to_schiff_for_TlF, Float(self.edm_e_cm))

TlFLimit_theta_QCD(self) ==
    LET theta_factor == Lit(27, -3)
    IN PyDiv(TlFLimit_schiff_limit(self), theta_factor)

TlFLimit_cEDM(self) ==
    LET cEDM_factor == Lit(10, 0)
    IN PyDiv(PyDiv(TlFLimit_schiff_limit(self), cEDM_factor), Lit(1, 13))

RaLimit_schiff_limit(self) ==
    LET kappa_s == Lit(85, -5)
        edm_e_fm == PyMul(Float(self.edm_e_cm), PyDiv(Lit(1, 15), Lit(1, 2)))
        schiff_moment_limit == PyDiv(edm_e_fm, kappa_s)
    IN schiff_moment_limit

RaLimit_theta_QCD(self) == RaLimit_schiff_limit(self)

RaLimit_g1(self) ==
    LET a1 == Lit(6, 0)
        g == Lit(135, -1)
        g1_limit == PyDiv(RaLimit_schiff_limit(self), PyMul(a1, g))
    IN g1_limit

RaLimit_cEDM(self) == PyDiv(RaLimit_g1(self), Lit(2, 14))

YbLimit_schiff_limit(self) ==
    LET kappa_s == Lit(188, -6)
        edm_e_fm == PyMul(Float(self.edm_e_cm), PyDiv(Lit(1, 15), Lit(1, 2)))
        schiff_moment_limit == PyDiv(edm_e_fm, kappa_s)
    IN schiff_moment_limit

YbLimit_theta_QCD(self) ==
    LET theta_QCD_to_Schiff == Lit(5, -3)
    IN PyDiv(YbLimit_schiff_limit(self), theta_QCD_to_Schiff)

\* A slip in the direction of the Yb/Hg factor: multiplied by 0.6, not divided.
YbLimit_cEDM_multiplied(self) ==
    LET d_Yb_equivalent_d_Hg == Lit(6, -1)
        eff_d_Hg == PyMul(Float(self.edm_e_cm), d_Yb_equivalent_d_Hg)
    IN cEDM_Hg(eff_d_Hg)

YbLimit_cEDM(self) ==
    LET d_Yb_equivalent_d_Hg == Lit(6, -1)
        eff_d_Hg == PyDiv(Float(self.edm_e_cm), d_Yb_equivalent_d_Hg)
    IN cEDM_Hg(eff_d_Hg)

eEDMLimit_one_loop_mass_limit(self) ==
    PyMul(Lit(48, 0), NpSqrt(PyDiv(Lit(1, -29), Float(self.edm_e_cm))))

eEDMLimit_two_loop_mass_limit(self) ==
    PyMul(Lit(2, 0), NpSqrt(PyDiv(Lit(1, -29), Float(self.edm_e_cm))))

\* self.cEDM as the class `owner` defines it.
Property_cEDM(owner, self) ==
    CASE owner = "EDMLimit" -> EDMLimit_cEDM(self)
      [] owner = "NeutronLimit" -> NeutronLimit_cEDM(self)
      [] owner = "HgLimit" -> HgLimit_cEDM(self)
      [] owner = "XeLimit" -> XeLimit_cEDM(self)
      [] owner = "TlFLimit" -> TlFLimit_cEDM(self)
      [] owner = "RaLimit" -> RaLimit_cEDM(self)
      [] owner = "YbLimit" -> YbLimit_cEDM(self)

\* A slip in the lookup: the base class's own cEDM, whatever the instance is.
EDMLimit_new_particle_mass_from_base_cEDM(self) ==
    hadronic_chromo_EDM_limits_on_new_particle_mass(EDMLimit_cEDM(self))

\* EDMLimit.new_particle_mass_from_cEDM: self.cEDM is looked up on the
\* instance, so a subclass's cEDM is the one used.
EDMLimit_new_particle_mass_from_cEDM(self) ==
    hadronic_chromo_EDM_limits_on_new_particle_mass(
        Property_cEDM(Resolve(self.cls, "cEDM"), self))

\* The property `name` as the class `owner` defines it, read on self.
Property(owner, name, self) ==
    CASE name = "cEDM" -> Property_cEDM(owner, self)
      [] name = "system" -> class_system(owner)
      [] name = "new_particle_mass_from_cEDM" -> EDMLimit_new_particle_mass_from_cEDM(self)
      [] name = "theta_QCD" /\ owner = "EDMLimit" -> EDMLimit_theta_QCD(self)
      [] name = "theta_QCD" /\ owner = "NeutronLimit" -> NeutronLimit_theta_QCD(self)
      [] name = "theta_QCD" /\ owner = "HgLimit" -> HgLimit_theta_QCD(self)
      [] name = "theta_QCD" /\ owner = "XeLimit" -> XeLimit_theta_QCD(self)
      [] name = "theta_QCD" /\ owner = "TlFLimit" -> TlFLimit_theta_QCD(self)
      [] name = "theta_QCD" /\ owner = "RaLimit" -> RaLimit_theta_QCD(self)
      [] name = "theta_QCD" /\ owner = "YbLimit" -> YbLimit_theta_QCD(self)
      [] name = "_schiff_limit" /\ owner = "TlFLimit" -> TlFLimit_schiff_limit(self)
      [] name = "_schiff_limit" /\ owner = "RaLimit" -> RaLimit_schiff_limit(self)
      [] name = "_schiff_limit" /\ owner = "YbLimit" -> YbLimit_schiff_limit(self)
      [] name = "_g1" -> RaLimit_g1(self)
      [] name = "one_loop_mass_limit" -> eEDMLimit_one_loop_mass_limit(self)
      [] name = "two_loop_mass_limit" -> eEDMLimit_two_loop_mass_limit(self)

\* The attribute `name` as the instance itself holds it.
InstanceAttr(self, name) ==
    CASE name = "year" -> PyInt(self.year)
      [] name = "edm_e_cm" -> Float(self.edm_e_cm)
      [] name = "ref" -> PyStr(self.ref)

\* self.name: the property found along the method resolution order, else the
\* attribute of the instance, else the class attribute; an AttributeError
\* when neither the instance nor a class of it has the name.
GetAttr(self, name) ==
    LET owner == Resolve(self.cls, name)
    IN IF owner # "missing" THEN Property(owner, name, self)
       ELSE IF name \in InstanceDict THEN InstanceAttr(self, name)
       ELSE Raise("AttributeError")

----------------------------------------------------------------------------
(* schiff.py: the measurement sensitivity model and the mass-scale         *)
(* function of the forward pipeline.                                       *)

\* MeasurementSettings.__init__
MeasurementSettings_init(particle_number, efficiency, measurement_time, down_time, coherence_time) ==
    [particle_number |-> particle_number, efficiency |-> efficiency,
     measurement_time |-> measurement_time, down_time |-> down_time,
     coherence_time |-> coherence_time]

\* MeasurementSettings(): the defaults of the constructor's parameters.
MeasurementSettings_defaults ==
    MeasurementSettings_init(Lit(1, 0), Lit(99, -2), Lit(864000, 0), Lit(30, -3),
                             Lit(100, 0))

\* A slip in the duty cycle: the down time left out of the cycle time.
frequency_sensitivity_Hz_without_down_time(measurement_settings) ==
    LET ms == measurement_settings
        T_total == ms.measurement_time
        tau == ms.coherence_time
        beta == ms.efficiency
        N == ms.particle_number
        prefactor == PyMul(PyMul(PyMul(Lit(2, 0), NpPi), tau), beta)
        denominator == PyMul(prefactor, NpSqrt(PyDiv(PyMul(N, T_total), tau)))
    IN PyDiv(Lit(1, 0), denominator)

frequency_sensitivity_Hz(measurement_settings) ==
    LET ms == measurement_settings
        T_total == ms.measurement_time
        T_down == ms.down_time
        tau == ms.coherence_time
        beta == ms.efficiency
        N == ms.particle_number
        prefactor == PyMul(PyMul(PyMul(Lit(2, 0), NpPi), tau), beta)
        denominator == PyMul(prefactor,
                             NpSqrt(PyDiv(PyMul(N, T_total), PyAdd(tau, T_down))))
    IN PyDiv(Lit(1, 0), denominator)

\* scipy.constants, the constants service of the forward pipeline: the
\* elementary charge, hbar, the Bohr radius and the vacuum permittivity in SI
\* units, each held to its leading digits (1.6e-19 C, 1e-34 J s, 5e-11 m,
\* 9e-12 F/m).  The pipeline only multiplies and divides by them.
scipy_constants_e == Lit(16, -20)

scipy_constants_hbar == Lit(1, -34)

scipy_constants_Bohr_radius == Lit(5, -11)

scipy_constants_epsilon_0 == Lit(9, -12)

\* Molecule.__init__
Molecule_init(W_S, K_S, a_0, a_1, a_2) ==
    [W_S |-> W_S, K_S |-> K_S, a_0 |-> a_0, a_1 |-> a_1, a_2 |-> a_2,
     molecule_name |-> PyNone, nucleus_E_field_alignment |-> Lit(25, -2)]

\* Molecule(): the defaults of the constructor's parameters.
Molecule_defaults ==
    Molecule_init(Lit(45000, 0), Lit(1, 0), Lit(-15, -1), Lit(6, 0), Lit(-4, 0))

\* Molecule.schiff_SI
Molecule_schiff_SI(self) ==
    CHOOSE r \in
        {PyMul(Schiff_au_to_SI, self.K_S) :
            Schiff_au_to_SI \in {PyMul(scipy_constants_e, PyPow(fm, 3)) :
                                   fm \in {Lit(1, -15)}}} : TRUE

\* Molecule.W_S_SI
Molecule_W_S_SI(self) ==
    CHOOSE r \in
        {PyMul(W_S_au_to_SI, self.W_S) :
            W_S_au_to_SI \in
                {PyDiv(scipy_constants_e, PyMul(electric_const, PyPow(bohr_radius, 4))) :
                    bohr_radius \in {scipy_constants_Bohr_radius},
                    electric_const \in {PyMul(PyMul(Lit(4, 0), NpPi),
                                              scipy_constants_epsilon_0)}}} : TRUE

theta_QCD_sensitivity(measurement_settings, molecule) ==
    CHOOSE r \in
        {PyDiv(PyMul(PyMul(orientation_enhancement, scipy_constants_hbar), delta_omega),
               PyMul(W_S, S)) :
            delta_omega \in {PyMul(PyMul(Lit(2, 0), NpPi),
                                   frequency_sensitivity_Hz(measurement_settings))},
            S \in {Molecule_schiff_SI(molecule)},
            W_S \in {Molecule_W_S_SI(molecule)},
            orientation_enhancement \in
                {PyDiv(Lit(1, 0), PyMul(opposite_state_enhancement,
                                        molecule.nucleus_E_field_alignment)) :
                    opposite_state_enhancement \in {Lit(2, 0)}}} : TRUE

\* A slip in the relation of the Schiff moment to theta: K_S left out.
schiff_moment_sensitivity_without_K_S(measurement_settings, molecule) ==
    theta_QCD_sensitivity(measurement_settings, molecule)

schiff_moment_sensitivity(measurement_settings, molecule) ==
    CHOOSE r \in
        {PyMul(molecule.K_S, theta_limit) :
            theta_limit \in {theta_QCD_sensitivity(measurement_settings, molecule)}} : TRUE

\* schiff._g_pi_NN_to_Schiff_prefactor
g_pi_NN_to_Schiff_prefactor ==
    CHOOSE r \in
        {PyDiv(PyMul(PyMul(Lit(2, 0), m_N), g_A), F_pi) :
            g_A \in {PySub(delta_u_p, delta_u_n) :
                       delta_u_p \in {Lit(746, -3)}, delta_u_n \in {Lit(-508, -3)}},
            F_pi \in {Lit(185, 0)},
            m_N \in {Lit(995, 0)}} : TRUE

g_0_sensitivity(measurement_settings, molecule) ==
    CHOOSE r \in
        {NpAbs(PyDiv(schiff_limit, PyMul(prefactor, molecule.a_0))) :
            schiff_limit \in {schiff_moment_sensitivity(measurement_settings, molecule)},
            prefactor \in {g_pi_NN_to_Schiff_prefactor}} : TRUE

g_1_sensitivity(measurement_settings, molecule) ==
    CHOOSE r \in
        {PyDiv(schiff_limit, PyMul(prefactor, molecule.a_1)) :
            schiff_limit \in {schiff_moment_sensitivity(measurement_settings, molecule)},
            prefactor \in {g_pi_NN_to_Schiff_prefactor}} : TRUE

g_2_sensitivity(measurement_settings, molecule) ==
    CHOOSE r \in
        {NpAbs(PyDiv(schiff_limit, PyMul(prefactor, molecule.a_2))) :
            schiff_limit \in {schiff_moment_sensitivity(measurement_settings, molecule)},
            prefactor \in {g_pi_NN_to_Schiff_prefactor}} : TRUE

up_down_quark_difference_chromo_EDM_sensitivity(measurement_settings, molecule) ==
    CHOOSE d_u_minus_d_d \in
        {PyDiv(g_1_limit, quark_chromo_factor) :
            quark_chromo_factor \in {Lit(2, 14)},
            g_1_limit \in {g_1_sensitivity(measurement_settings, molecule)}} : TRUE

\* A slip in the units of the Ra factor: kappa_s in fm^-2, not e cm per e fm^3.
radium_225_EDM_sensitivity_per_fm(measurement_settings, molecule) ==
    CHOOSE r \in
        {NpAbs(PyMul(Lit(-85, -5), schiff_limit)) :
            schiff_limit \in {schiff_moment_sensitivity(measurement_settings, molecule)}} : TRUE

radium_225_EDM_sensitivity(measurement_settings, molecule) ==
    CHOOSE r \in
        {NpAbs(PyMul(Lit(-85, -18), schiff_limit)) :
            schiff_limit \in {schiff_moment_sensitivity(measurement_settings, molecule)}} : TRUE

\* A slip in the unit factor: both ratios inverted, 1e6 for 1e-6.
schiff_MeV_to_TeV_inverted ==
    PyMul(PyDiv(Lit(1, -6), Lit(1, 0)), PyDiv(Lit(1, 0), Lit(1, -12)))

\* schiff.chromo_EDM_limits_on_new_particle_mass
schiff_MeV_to_TeV == PyMul(PyDiv(Lit(1, 0), Lit(1, -6)), PyDiv(Lit(1, -12), Lit(1, 0)))

\* A slip in the unit chain: d_q taken in fm without the cm -> fm conversion.
schiff_chromo_EDM_limits_without_cm_to_fm(d_q) ==
    LET alpha == PyDiv(Lit(1, 0), Lit(137, 0))
        m_q == Lit(5, 0)
        prefactor == PyDiv(PyMul(alpha, m_q), NpPi)
        fm_to_inv_MeV == PyDiv(Lit(1, 0), Lit(197, 0))
        d_q_inv_MeV == PyMul(d_q, fm_to_inv_MeV)
    IN PyMul(schiff_MeV_to_TeV,
             NpSqrt(PyDiv(PyMul(prefactor, Lit(1, 0)), d_q_inv_MeV)))

schiff_chromo_EDM_limits_on_new_particle_mass(d_q) ==
    LET alpha == PyDiv(Lit(1, 0), Lit(137, 0))
        m_q == Lit(5, 0)
        prefactor == PyDiv(PyMul(alpha, m_q), NpPi)
        cm_to_fm == PyDiv(Lit(1, 15), Lit(1, 2))
        d_q_fm == PyMul(d_q, cm_to_fm)
        fm_to_inv_MeV == PyDiv(Lit(1, 0), Lit(197, 0))
        d_q_inv_MeV == PyMul(d_q_fm, fm_to_inv_MeV)
    IN PyMul(schiff_MeV_to_TeV,
             NpSqrt(PyDiv(PyMul(prefactor, Lit(1, 0)), d_q_inv_MeV)))

\* A slip in one copy of the duplicated function: another default.
schiff_d_q_default_other == Lit(1, -26)

\* The default of the parameter d_q of schiff.chromo_EDM_limits_on_new_particle_mass.
schiff_d_q_default == Lit(1, -27)

----------------------------------------------------------------------------
(* The state: an EDM limit (limits share no state, so one stands for each  *)
(* of them), the arguments its constructor was called with, and the most   *)
(* recent call (a property read on the limit, or a module-level function   *)
(* call) with the receiver it was made on, its arguments and what it       *)
(* returned.                                                               *)

VARIABLES limit, init_args, call

vars == <<limit, init_args, call>>

\* Bounds of the inputs.
MaxBound == 3

MaxSetting == 2

MaxScale == 3

MaxRows == 2

Years == {2020}

Refs == {"x"}

\* Measured bounds m * 1e-26 e cm, and chromo-EDM arguments m * 1e-27 cm.
EdmBounds == {Dec(m, -26) : m \in 1 .. MaxBound}

ChromoEDMs == {Lit(m, -27) : m \in 1 .. MaxBound}

Counts == {Lit(m, 0) : m \in 1 .. MaxSetting}

Efficiencies == {Lit(5, -1), Lit(99, -2)}

DownTimes == {Lit(0, 0), Lit(30, -3)}

Settings ==
    {MeasurementSettings_init(N, beta, T, Td, tau) :
        N \in Counts, beta \in Efficiencies, T \in Counts, Td \in DownTimes,
        tau \in Counts}
    \cup {MeasurementSettings_defaults}

NoLimit == [cls |-> "none", year |-> 0, edm_e_cm |-> Zero, ref |-> ""]

NoCall == [op |-> "none", self |-> NoLimit, args |-> <<>>, ret |-> PyNone]

Init == limit = NoLimit /\ init_args = <<>> /\ call = NoCall

\* cls(year, edm_e_cm, ref)
New(cls, year, edm_e_cm, ref) ==
    /\ limit = NoLimit
    /\ limit' = EDMLimit_init(cls, year, edm_e_cm, ref)
    /\ init_args' = <<year, edm_e_cm, ref>>
    /\ UNCHANGED call

\* A row of a data file: a measurement (year, bound, ref).  A file holds one
\* to MaxRows of them.
Measurements == Years \X EdmBounds \X Refs

\* The system names with a data file.
Systems == {"neutron", "TlF", "Hg", "Xe", "Ra", "Yb"}

\* load_data._get_limit_class: hadronic_map.get(system).
get_limit_class(system) ==
    CASE system = "neutron" -> "NeutronLimit"
      [] system = "TlF" -> "TlFLimit"
      [] system = "Hg" -> "HgLimit"
      [] system = "Xe" -> "XeLimit"
      [] system = "Ra" -> "RaLimit"
      [] system = "Yb" -> "YbLimit"
      [] OTHER -> "NoneType"

\* load_data.hadronic(system) on a file of n rows, the i-th of them being
\* measurement (a single row is read as a scalar and made a one-element array
\* by np.atleast_1d): one instance of the system's class per row; limit is
\* the i-th of the list returned.
load_data_hadronic(system, n, i, measurement) ==
    LET limit_class == get_limit_class(system)
    IN /\ limit = NoLimit
       /\ i \in 1 .. n
       /\ limit' = EDMLimit_init(limit_class, measurement[1], measurement[2],
                                 measurement[3])
       /\ init_args' = measurement
       /\ UNCHANGED call

\* load_data.electron(file_name) on a file of n rows, the i-th of them being
\* measurement (a single row is given its dimension by np.expand_dims): one
\* eEDMLimit per row; limit is the i-th of the list returned.
load_data_electron(n, i, measurement) ==
    /\ limit = NoLimit
    /\ i \in 1 .. n
    /\ limit' = EDMLimit_init("eEDMLimit", measurement[1], measurement[2],
                              measurement[3])
    /\ init_args' = measurement
    /\ UNCHANGED call

\* A slip in a property: the read leaves its name on the instance.
Read_marking(name) ==
    /\ limit # NoLimit
    /\ call' = [op |-> name, self |-> limit, args |-> <<>>, ret |-> GetAttr(limit, name)]
    /\ limit' = [limit EXCEPT !.ref = name]
    /\ UNCHANGED init_args

\* limit.name
Read(name) ==
    /\ limit # NoLimit
    /\ call' = [op |-> name, self |-> limit, args |-> <<>>, ret |-> GetAttr(limit, name)]
    /\ UNCHANGED <<limit, init_args>>

\* The names read on a limit: the class attribute, the properties of the
\* hierarchy and the attributes of the instance.
PropertyNames ==
    {"system", "theta_QCD", "cEDM", "new_particle_mass_from_cEDM", "_schiff_limit",
     "_g1", "one_loop_mass_limit", "two_loop_mass_limit"} \cup InstanceDict

\* The value of the parameter d_q in a call with the arguments args.
hadronic_d_q(args) == IF Len(args) = 0 THEN hadronic_d_q_default ELSE args[1]

schiff_d_q(args) == IF Len(args) = 0 THEN schiff_d_q_default ELSE args[1]

ChromoArgs == {<<>>} \cup {<<d>> : d \in ChromoEDMs}

\* What the module-level functions return on the inputs of the model: each
\* is a pure function of its arguments, evaluated here once per input (f @@ <<>>
\* is f with its values computed).
hadronic_returns ==
    [args \in ChromoArgs |->
        hadronic_chromo_EDM_limits_on_new_particle_mass(hadronic_d_q(args))] @@ <<>>

schiff_returns ==
    [args \in ChromoArgs |->
        schiff_chromo_EDM_limits_on_new_particle_mass(schiff_d_q(args))] @@ <<>>

frequency_returns == [ms \in Settings |-> frequency_sensitivity_Hz(ms)] @@ <<>>

\* hadronic.chromo_EDM_limits_on_new_particle_mass(*args)
Call_hadronic_chromo_EDM_limits(args) ==
    /\ call' = [op |-> "hadronic.chromo_EDM_limits_on_new_particle_mass",
                self |-> NoLimit, args |-> args, ret |-> hadronic_returns[args]]
    /\ UNCHANGED <<limit, init_args>>

\* schiff.chromo_EDM_limits_on_new_particle_mass(*args)
Call_schiff_chromo_EDM_limits(args) ==
    /\ call' = [op |-> "schiff.chromo_EDM_limits_on_new_particle_mass",
                self |-> NoLimit, args |-> args, ret |-> schiff_returns[args]]
    /\ UNCHANGED <<limit, init_args>>

\* schiff.frequency_sensitivity_Hz(ms)
Call_frequency_sensitivity_Hz(ms) ==
    /\ call' = [op |-> "frequency_sensitivity_Hz", self |-> NoLimit, args |-> <<ms>>,
                ret |-> frequency_returns[ms]]
    /\ UNCHANGED <<limit, init_args>>

\* The molecules: the default one, and one with W_S of the other sign and
\* another K_S.
Molecules ==
    {Molecule_defaults,
     Molecule_init(Lit(-45000, 0), Lit(2, 0), Lit(-15, -1), Lit(6, 0), Lit(-4, 0))}

\* The settings of the forward pipeline: those at the default efficiency
\* with a rational frequency sensitivity (N*T/(tau + T_down) a perfect
\* square), and the default ones.  The coupling sensitivities divide by the
\* prefactor 2*995*1.254/185, whose square under a square root is beyond the
\* integers of the model, so they are called with the rational ones.
RationalSettings ==
    {ms \in Settings : /\ ms.efficiency = MeasurementSettings_defaults.efficiency
                       /\ frequency_returns[ms].val.h = 0}

SchiffArgs == (RationalSettings \cup {MeasurementSettings_defaults}) \X Molecules

CouplingArgs == RationalSettings \X Molecules

theta_QCD_sensitivity_returns ==
    [args \in SchiffArgs |->
        theta_QCD_sensitivity(args[1], args[2])] @@ <<>>

schiff_moment_sensitivity_returns ==
    [args \in SchiffArgs |->
        schiff_moment_sensitivity(args[1], args[2])] @@ <<>>

g_0_sensitivity_returns ==
    [args \in CouplingArgs |->
        g_0_sensitivity(args[1], args[2])] @@ <<>>

g_1_sensitivity_returns ==
    [args \in CouplingArgs |->
        g_1_sensitivity(args[1], args[2])] @@ <<>>

g_2_sensitivity_returns ==
    [args \in CouplingArgs |->
        g_2_sensitivity(args[1], args[2])] @@ <<>>

chromo_EDM_sensitivity_returns ==
    [args \in CouplingArgs |->
        up_down_quark_difference_chromo_EDM_sensitivity(args[1], args[2])] @@ <<>>

radium_225_EDM_sensitivity_returns ==
    [args \in SchiffArgs |->
        radium_225_EDM_sensitivity(args[1], args[2])] @@ <<>>

\* schiff.theta_QCD_sensitivity(ms, molecule)
Call_theta_QCD_sensitivity(ms, molecule) ==
    /\ call' = [op |-> "theta_QCD_sensitivity", self |-> NoLimit,
                args |-> <<ms, molecule>>, ret |-> theta_QCD_sensitivity_returns[<<ms, molecule>>]]
    /\ UNCHANGED <<limit, init_args>>

\* schiff.schiff_moment_sensitivity(ms, molecule)
Call_schiff_moment_sensitivity(ms, molecule) ==
    /\ call' = [op |-> "schiff_moment_sensitivity", self |-> NoLimit,
                args |-> <<ms, molecule>>, ret |-> schiff_moment_sensitivity_returns[<<ms, molecule>>]]
    /\ UNCHANGED <<limit, init_args>>

\* schiff.g_0_sensitivity(ms, molecule)
Call_g_0_sensitivity(ms, molecule) ==
    /\ call' = [op |-> "g_0_sensitivity", self |-> NoLimit,
                args |-> <<ms, molecule>>, ret |-> g_0_sensitivity_returns[<<ms, molecule>>]]
    /\ UNCHANGED <<limit, init_args>>

\* schiff.g_1_sensitivity(ms, molecule)
Call_g_1_sensitivity(ms, molecule) ==
    /\ call' = [op |-> "g_1_sensitivity", self |-> NoLimit,
                args |-> <<ms, molecule>>, ret |-> g_1_sensitivity_returns[<<ms, molecule>>]]
    /\ UNCHANGED <<limit, init_args>>

\* schiff.g_2_sensitivity(ms, molecule)
Call_g_2_sensitivity(ms, molecule) ==
    /\ call' = [op |-> "g_2_sensitivity", self |-> NoLimit,
                args |-> <<ms, molecule>>, ret |-> g_2_sensitivity_returns[<<ms, molecule>>]]
    /\ UNCHANGED <<limit, init_args>>

\* schiff.up_down_quark_difference_chromo_EDM_sensitivity(ms, molecule)
Call_chromo_EDM_sensitivity(ms, molecule) ==
    /\ call' = [op |-> "up_down_quark_difference_chromo_EDM_sensitivity", self |-> NoLimit,
                args |-> <<ms, molecule>>, ret |-> chromo_EDM_sensitivity_returns[<<ms, molecule>>]]
    /\ UNCHANGED <<limit, init_args>>

\* schiff.radium_225_EDM_sensitivity(ms, molecule)
Call_radium_225_EDM_sensitivity(ms, molecule) ==
    /\ call' = [op |-> "radium_225_EDM_sensitivity", self |-> NoLimit,
                args |-> <<ms, molecule>>, ret |-> radium_225_EDM_sensitivity_returns[<<ms, molecule>>]]
    /\ UNCHANGED <<limit, init_args>>

Next ==
    \/ \E cls \in Classes, year \in Years, d \in EdmBounds, ref \in Refs :
          New(cls, year, d, ref)
    \/ \E system \in Systems, n \in 1 .. MaxRows, i \in 1 .. MaxRows :
          \E measurement \in Measurements : load_data_hadronic(system, n, i, measurement)
    \/ \E n \in 1 .. MaxRows, i \in 1 .. MaxRows :
          \E measurement \in Measurements : load_data_electron(n, i, measurement)
    \/ \E name \in PropertyNames : Read(name)
    \/ \E args \in ChromoArgs : Call_hadronic_chromo_EDM_limits(args)
    \/ \E args \in ChromoArgs : Call_schiff_chromo_EDM_limits(args)
    \/ \E ms \in Settings : Call_frequency_sensitivity_Hz(ms)
    \/ \E args \in SchiffArgs : Call_theta_QCD_sensitivity(args[1], args[2])
    \/ \E args \in SchiffArgs : Call_schiff_moment_sensitivity(args[1], args[2])
    \/ \E args \in CouplingArgs : Call_g_0_sensitivity(args[1], args[2])
    \/ \E args \in CouplingArgs : Call_g_1_sensitivity(args[1], args[2])
    \/ \E args \in CouplingArgs : Call_g_2_sensitivity(args[1], args[2])
    \/ \E args \in CouplingArgs : Call_chromo_EDM_sensitivity(args[1], args[2])
    \/ \E args \in SchiffArgs : Call_radium_225_EDM_sensitivity(args[1], args[2])

Spec == Init /\ [][Next]_vars

----------------------------------------------------------------------------
(* Properties.                                                             *)

ReadOf(name) == call.op = name /\ call.self # NoLimit

MassOps == {"hadronic.chromo_EDM_limits_on_new_particle_mass",
            "schiff.chromo_EDM_limits_on_new_particle_mass"}

\* The d_q the most recent mass-scale call was made with.
Called_d_q ==
    IF call.op = "hadronic.chromo_EDM_limits_on_new_particle_mass"
    THEN hadronic_d_q(call.args) ELSE schiff_d_q(call.args)

\* C1: reading theta_QCD or cEDM on an instance of the abstract base
\* EDMLimit raises UnimplementedConversion and never returns a value.
C1_BaseQueriesRaise ==
    (ReadOf("theta_QCD") \/ ReadOf("cEDM")) /\ call.self.cls = "EDMLimit"
        => call.ret = Raise("UnimplementedConversion")

\* C2: reading cEDM on the electron variant raises UnimplementedConversion
\* for every edm_bound.
C2_ElectronCEDMRaises ==
    ReadOf("cEDM") /\ call.self.cls = "eEDMLimit"
        => call.ret = Raise("UnimplementedConversion")

\* factor * sqrt(prefactor / d_q_inv_MeV) with prefactor = (1/137)*5/pi and
\* d_q_inv_MeV = d_q * 1e13 * (1/197), as the specification states it.
StatedMassScale(factor, d_q) ==
    LET prefactor == PyDiv(PyMul(PyDiv(Lit(1, 0), Lit(137, 0)), Lit(5, 0)), NpPi)
        d_q_inv_MeV == PyMul(PyMul(d_q, Lit(1, 13)), PyDiv(Lit(1, 0), Lit(197, 0)))
    IN PyMul(factor, NpSqrt(PyDiv(prefactor, d_q_inv_MeV)))

\* C3 as stated: for every d_q > 0 the mass-scale function returns
\* 1e-18 * sqrt(prefactor / d_q_inv_MeV).
C3_MassScaleFactor1e18 ==
    call.op \in MassOps => call.ret = StatedMassScale(Lit(1, -18), Called_d_q)

\* C3 as amended: for every d_q > 0 the mass-scale function returns
\* 1e-6 * sqrt(prefactor / d_q_inv_MeV): the MeV -> TeV factor is 1e-6.
C3_MassScaleFactor1e6 ==
    call.op \in MassOps => call.ret = StatedMassScale(Lit(1, -6), Called_d_q)

C3_Witness ==
    /\ call.op \in MassOps
    /\ call.args = <<Lit(2, -27)>>
    /\ call.ret.kind = "float"

\* C4: chromo_EDM_limits_on_new_particle_mass(1e-27) lies in [15.0, 15.2].
C4_MassScaleAt1e27 ==
    call.op \in MassOps /\ Called_d_q = Lit(1, -27)
        => /\ call.ret.kind = "float"
           /\ Le(Dec(150, -1), call.ret.val)
           /\ Le(call.ret.val, Dec(152, -1))

C4_Witness ==
    /\ call.op = "schiff.chromo_EDM_limits_on_new_particle_mass"
    /\ call.args = <<Lit(1, -27)>>
    /\ call.ret.kind = "float"

\* C5: on every hadronic variant and for every edm_bound > 0,
\* new_particle_mass_from_cEDM returns exactly what passing the instance's
\* cEDM to chromo_EDM_limits_on_new_particle_mass by hand returns.
C5_MassFromCEDMIsManualChain ==
    ReadOf("new_particle_mass_from_cEDM") /\ call.self.cls \in HadronicClasses
        => /\ call.ret.kind = "float"
           /\ call.ret = hadronic_chromo_EDM_limits_on_new_particle_mass(
                             GetAttr(call.self, "cEDM"))

C5_Witness ==
    /\ ReadOf("new_particle_mass_from_cEDM")
    /\ call.self.cls = "RaLimit"
    /\ call.ret.kind = "float"

\* The factors k # 1 a bound or a setting is scaled by, and those above 1.
ScaleFactors == {Frac(a, b) : a \in 1 .. MaxScale, b \in 1 .. MaxScale} \ {Num(1)}

Increases == {k \in ScaleFactors : Lt(Num(1), k)}

\* The property `name` of the variant of self built with the bound d.
OfBound(self, d, name) ==
    GetAttr(EDMLimit_init(self.cls, self.year, d, self.ref), name)

\* The value just read is proportional to edm_bound and strictly increasing
\* in it: the variant built with k times the bound gives k times the value,
\* which is larger for k > 1 and smaller for k < 1.
ProportionalToBound ==
    /\ call.ret.kind = "float"
    /\ \A k \in ScaleFactors :
          LET other == OfBound(call.self, Mul(k, call.self.edm_e_cm), call.op)
          IN /\ other = Float(Mul(k, call.ret.val))
             /\ IF k \in Increases THEN Lt(call.ret.val, other.val)
                ELSE Lt(other.val, call.ret.val)

\* C6 as stated: for all systems (neutron, Hg, Xe, TlF, Ra, Yb, electron),
\* theta_QCD and cEDM of a limit built with k times the bound are k times
\* those of the limit built with the bound, and both are strictly increasing.
C6_ProportionalAllSystems ==
    (ReadOf("theta_QCD") \/ ReadOf("cEDM"))
        /\ call.self.cls \in HadronicClasses \cup {"eEDMLimit"}
        => ProportionalToBound

\* C6 as amended: the same for the six hadronic systems (neutron, Hg, Xe,
\* TlF, Ra, Yb); the electron variant has neither quantity.
C6_ProportionalHadronic ==
    (ReadOf("theta_QCD") \/ ReadOf("cEDM")) /\ call.self.cls \in HadronicClasses
        => ProportionalToBound

C6_Witness ==
    /\ ReadOf("cEDM")
    /\ call.self.cls = "TlFLimit"
    /\ call.self.edm_e_cm = Dec(2, -26)
    /\ call.ret.kind = "float"

\* theta_QCD of each system as the specification states it, for the bound d.
StatedTheta(cls, d) ==
    CASE cls = "NeutronLimit" ->
             PyDiv(d, PyMul(Lit(39, -4), PyDiv(Lit(1, 2), Lit(1, 15))))
      [] cls = "HgLimit" -> PyDiv(d, PyDiv(Lit(74, -31), Lit(15, -11)))
      [] cls = "XeLimit" ->
             PyMul(PyMul(d, Lit(10, 0)), PyDiv(Lit(15, -11), Lit(74, -31)))
      [] cls = "TlFLimit" ->
             PyDiv(PyMul(PyDiv(Lit(4, -10), Lit(29, -24)), d), Lit(27, -3))
      [] cls = "RaLimit" -> PyDiv(PyMul(d, Lit(1, 13)), Lit(85, -5))
      [] cls = "YbLimit" ->
             PyDiv(PyDiv(PyMul(d, Lit(1, 13)), Lit(188, -6)), Lit(5, -3))

\* C7: for every edm_bound d, theta_QCD is: neutron d / (0.0039 * (1e2/1e15));
\* Hg d / (7.4e-30/1.5e-10); Xe d * 10 * (1.5e-10/7.4e-30), ten times the Hg
\* result for the same d; TlF S/0.027 with S = (4e-10/2.9e-23) * d; Ra
\* d * 1e13 / 8.5e-4; Yb S/0.005 with S = d * 1e13 / 1.88e-4.
C7_ThetaFormulas ==
    ReadOf("theta_QCD") /\ call.self.cls \in HadronicClasses
        => /\ call.ret.kind = "float"
           /\ call.ret = StatedTheta(call.self.cls, Float(call.self.edm_e_cm))
           /\ call.self.cls = "XeLimit"
                 => call.ret = PyMul(Lit(10, 0),
                                     GetAttr([call.self EXCEPT !.cls = "HgLimit"],
                                             "theta_QCD"))

C7_Witness ==
    /\ ReadOf("theta_QCD")
    /\ call.self.cls = "XeLimit"
    /\ call.self.edm_e_cm = Dec(3, -26)
    /\ call.ret.kind = "float"

\* The Hg rule of the chromo-EDM: d * (5.7e-27/7.4e-30).
StatedHgRule(d) == PyMul(d, PyDiv(Lit(57, -28), Lit(74, -31)))

\* cEDM of each system as the specification states it, for the bound d.
StatedCEDM(cls, d) ==
    CASE cls = "NeutronLimit" -> PyDiv(d, Lit(55, -2))
      [] cls = "HgLimit" -> StatedHgRule(d)
      [] cls = "XeLimit" -> StatedHgRule(PyMul(Lit(10, 0), d))
      [] cls = "YbLimit" -> StatedHgRule(PyDiv(d, Lit(6, -1)))
      [] cls = "TlFLimit" ->
             PyDiv(PyDiv(PyMul(PyDiv(Lit(4, -10), Lit(29, -24)), d), Lit(10, 0)),
                   Lit(1, 13))
      [] cls = "RaLimit" ->
             PyDiv(PyDiv(PyDiv(PyMul(d, Lit(1, 13)), Lit(85, -5)),
                         PyMul(Lit(6, 0), Lit(135, -1))),
                   Lit(2, 14))

\* C8: for every edm_bound d, cEDM is: neutron d/0.55; Hg d * (5.7e-27/7.4e-30);
\* Xe the Hg rule applied to 10*d, that is cEDM of HgLimit(10*d); Yb the Hg
\* rule applied to d/0.6; TlF S/10/1e13 with S the TlF Schiff limit; Ra
\* (S/(6.0*13.5))/2e14 with S the Ra Schiff limit.
C8_ChromoEDMFormulas ==
    ReadOf("cEDM") /\ call.self.cls \in HadronicClasses
        => /\ call.ret.kind = "float"
           /\ call.ret = StatedCEDM(call.self.cls, Float(call.self.edm_e_cm))
           /\ call.self.cls = "XeLimit"
                 => call.ret = GetAttr(EDMLimit_init("HgLimit", call.self.year,
                                           Mul(Num(10), call.self.edm_e_cm),
                                           call.self.ref), "cEDM")
           /\ call.self.cls = "TlFLimit"
                 => call.ret = PyDiv(PyDiv(GetAttr(call.self, "_schiff_limit"),
                                           Lit(10, 0)), Lit(1, 13))
           /\ call.self.cls = "RaLimit"
                 => call.ret = PyDiv(PyDiv(GetAttr(call.self, "_schiff_limit"),
                                           PyMul(Lit(6, 0), Lit(135, -1))),
                                     Lit(2, 14))

C8_Witness ==
    /\ ReadOf("cEDM")
    /\ call.self.cls = "NeutronLimit"
    /\ call.self.edm_e_cm = Dec(1, -26)
    /\ call.ret = PyDiv(Lit(1, -26), Lit(55, -2))

\* C9: hadronic.chromo_EDM_limits_on_new_particle_mass and
\* schiff.chromo_EDM_limits_on_new_particle_mass return the same value for
\* every d_q, and for the default d_q of a call without an argument.
C9_MassScaleCopiesAgree ==
    /\ call.op = "hadronic.chromo_EDM_limits_on_new_particle_mass"
          => call.ret = schiff_returns[call.args]
    /\ call.op = "schiff.chromo_EDM_limits_on_new_particle_mass"
          => call.ret = hadronic_returns[call.args]

C9_Witness ==
    /\ call.op = "schiff.chromo_EDM_limits_on_new_particle_mass"
    /\ call.args = <<>>
    /\ call.ret.kind = "float"

\* The steps down_time is raised by.
DownTimeSteps == {Lit(30, -3), Lit(1, 0)}

\* C10: for strictly positive particle_number, measurement_time,
\* coherence_time and efficiency and down_time >= 0, frequency_sensitivity_Hz
\* strictly decreases when one of particle_number, measurement_time,
\* coherence_time or efficiency is increased with the other settings fixed,
\* and strictly increases when down_time is increased.
C10_FrequencySensitivityMonotone ==
    call.op = "frequency_sensitivity_Hz"
        => LET ms == call.args[1]
           IN /\ call.ret.kind = "float"
              /\ \A k \in Increases :
                    /\ Lt(frequency_sensitivity_Hz(
                              [ms EXCEPT !.particle_number = PyMul(Float(k), @)]).val,
                          call.ret.val)
                    /\ Lt(frequency_sensitivity_Hz(
                              [ms EXCEPT !.measurement_time = PyMul(Float(k), @)]).val,
                          call.ret.val)
                    /\ Lt(frequency_sensitivity_Hz(
                              [ms EXCEPT !.coherence_time = PyMul(Float(k), @)]).val,
                          call.ret.val)
                    /\ Lt(frequency_sensitivity_Hz(
                              [ms EXCEPT !.efficiency = PyMul(Float(k), @)]).val,
                          call.ret.val)
              /\ \A step \in DownTimeSteps :
                    Lt(call.ret.val,
                       frequency_sensitivity_Hz(
                           [ms EXCEPT !.down_time = PyAdd(@, step)]).val)

C10_Witness ==
    /\ call.op = "frequency_sensitivity_Hz"
    /\ call.args = <<MeasurementSettings_defaults>>
    /\ call.ret.kind = "float"

\* The tags of the systems.
SystemTags == {"neutron", "Hg", "Xe", "TlF", "Ra", "Yb", "electron"}

\* The tag that names the system of each concrete class.
StatedTag(cls) ==
    CASE cls = "NeutronLimit" -> "neutron"
      [] cls = "HgLimit" -> "Hg"
      [] cls = "XeLimit" -> "Xe"
      [] cls = "TlFLimit" -> "TlF"
      [] cls = "RaLimit" -> "Ra"
      [] cls = "YbLimit" -> "Yb"
      [] cls = "eEDMLimit" -> "electron"

\* C11: the system tag read on an instance is null on the abstract base
\* EDMLimit and only there; on every concrete variant, the electron variant
\* eEDMLimit included, it is the tag in {neutron, Hg, Xe, TlF, Ra, Yb,
\* electron} that names the variant's system.
C11_SystemTagNamesVariant ==
    ReadOf("system")
        => IF call.self.cls = "EDMLimit" THEN call.ret = PyNone
           ELSE /\ call.ret = PyStr(StatedTag(call.self.cls))
                /\ call.ret.str \in SystemTags

C13_ConversionsTakeAbsoluteValue ==
    (ReadOf("theta_QCD") \/ ReadOf("cEDM") \/ ReadOf("_schiff_limit"))
        /\ Lt(Zero, call.self.edm_e_cm)
        => OfBound(call.self, Neg(call.self.edm_e_cm), call.op) = call.ret

\* The forward function named op, on the settings ms and the molecule.
Forward(op, ms, molecule) ==
    CASE op = "theta_QCD_sensitivity" -> theta_QCD_sensitivity(ms, molecule)
      [] op = "schiff_moment_sensitivity" -> schiff_moment_sensitivity(ms, molecule)
      [] op = "g_0_sensitivity" -> g_0_sensitivity(ms, molecule)
      [] op = "g_1_sensitivity" -> g_1_sensitivity(ms, molecule)
      [] op = "g_2_sensitivity" -> g_2_sensitivity(ms, molecule)
      [] op = "up_down_quark_difference_chromo_EDM_sensitivity" ->
             up_down_quark_difference_chromo_EDM_sensitivity(ms, molecule)
      [] op = "radium_225_EDM_sensitivity" -> radium_225_EDM_sensitivity(ms, molecule)

\* The functions of the forward pipeline that follow the Schiff moment.
SchiffOps ==
    {"schiff_moment_sensitivity", "g_0_sensitivity", "g_1_sensitivity",
     "g_2_sensitivity", "up_down_quark_difference_chromo_EDM_sensitivity",
     "radium_225_EDM_sensitivity"}

\* The values K_S # 0 a molecule's K_S is changed to.
OtherK_S == {Lit(-1, 0), Lit(5, -1), Lit(3, 0)}

\* C14: with the settings and the molecule's W_S, a_0, a_1, a_2 and
\* nucleus_E_field_alignment fixed, theta_QCD_sensitivity is inversely
\* proportional to K_S (K_S times it is the same for every K_S # 0), and
\* schiff_moment_sensitivity, the g_0, g_1 and g_2 sensitivities, the
\* chromo-EDM sensitivity and radium_225_EDM_sensitivity do not change when
\* only K_S changes.
C14_SchiffMomentIndependentOfK_S ==
    /\ call.op = "theta_QCD_sensitivity"
          => /\ call.ret.kind = "float"
             /\ \A K_S \in OtherK_S :
                   PyMul(K_S, theta_QCD_sensitivity(
                                  call.args[1], [call.args[2] EXCEPT !.K_S = K_S]))
                       = PyMul(call.args[2].K_S, call.ret)
    /\ call.op \in SchiffOps
          => /\ call.ret.kind = "float"
             /\ \A K_S \in OtherK_S :
                   Forward(call.op, call.args[1], [call.args[2] EXCEPT !.K_S = K_S])
                       = call.ret

C14_Witness ==
    /\ call.op = "g_1_sensitivity"
    /\ call.args[2].K_S = Lit(2, 0)
    /\ call.args[2].W_S = Lit(-45000, 0)
    /\ call.ret.kind = "float"

\* C15: for any settings and molecule, the RaLimit built with the bound
\* radium_225_EDM_sensitivity(settings, molecule) has a Schiff-moment limit,
\* and a theta_QCD, equal to the absolute value of
\* schiff_moment_sensitivity(settings, molecule).
C15_RadiumForwardBackwardInverse ==
    call.op = "radium_225_EDM_sensitivity"
        => /\ call.ret.kind = "float"
           /\ LET ra == EDMLimit_init("RaLimit", 2020, call.ret.val, "x")
                  schiff == NpAbs(schiff_moment_sensitivity(call.args[1], call.args[2]))
              IN /\ GetAttr(ra, "_schiff_limit") = schiff
                 /\ GetAttr(ra, "theta_QCD") = schiff

C15_Witness ==
    /\ call.op = "radium_225_EDM_sensitivity"
    /\ call.args[1] = MeasurementSettings_defaults
    /\ call.args[2].W_S = Lit(-45000, 0)
    /\ call.ret.kind = "float"
    /\ Lt(Zero, call.ret.val)

====
